---- MODULE Spec2Model ----
(***************************************************************************)
(* A model of src/cai_trial.py: the Streamlit script main() and the hybrid *)
(* retrieval pipeline retrieve() it calls.                                 *)
(*                                                                         *)
(* One script run is: upload check, process_pdfs, create_embedding_index,  *)
(* create_bm25_index, query input, retrieve (guard rail, FAISS search,     *)
(* BM25 top-k, fusion, cross-encoder reranking, low-confidence flag) and   *)
(* the handler of main that calls generate_response.                       *)
(*                                                                         *)
(* The external models (embedding model, FAISS index, BM25 scorer,         *)
(* cross-encoder, generator) are taken by their outputs: every output the  *)
(* library can return for the given arguments is drawn from a bounded set. *)
(* Chunk ids are Python's 0-based list positions; chunk texts are the      *)
(* numbers 1..NumTexts, each standing for one distinct string.  Cross      *)
(* encoder scores are in tenths (3 stands for 0.3).  The locals of         *)
(* retrieve exist from its call to its return or its exception.            *)
(*                                                                         *)
(* retrieve() reads the name finance_keywords at line 136.  The only       *)
(* assignment to that name (lines 131-134) is the body of the nested def   *)
(* of line 129, so the name is local to the nested function, which is      *)
(* never called; in the outer function it is a free name looked up in the  *)
(* module's globals, where the module itself binds nothing.  The variable  *)
(* finance_keywords is that global binding.  Spec is the module as it      *)
(* stands (the name is unbound); SpecBound runs the same code in an        *)
(* environment whose globals bind the name to the list of lines 131-134,   *)
(* which is the only way lines 141-171 are ever executed.                  *)
(***************************************************************************)
EXTENDS Integers, Sequences, FiniteSets, TLC

\* ------------------------------------------------------------------ bounds
MaxFiles == 3
MaxChunks == 2
NumTexts == 2
MaxTopK == 2
MaxBm25 == 1
MaxRuns == 2

\* --------------------------------------------------------- program constants
\* main: len(uploaded_files) == 2
RequiredFiles == 2
\* retrieve: top_score < 0.3, in tenths
Threshold == 3

\* ------------------------------------------------------------------ strings
UpperCase ==
  <<"A","B","C","D","E","F","G","H","I","J","K","L","M","N","O","P","Q","R","S","T","U","V","W","X","Y","Z">>
LowerCase ==
  <<"a","b","c","d","e","f","g","h","i","j","k","l","m","n","o","p","q","r","s","t","u","v","w","x","y","z">>

\* str.lower() on one character
lower_char(c) ==
  IF \E i \in 1..Len(UpperCase) : UpperCase[i] = c
  THEN LowerCase[CHOOSE i \in 1..Len(UpperCase) : UpperCase[i] = c]
  ELSE c

\* query.lower()
lower(s) == [i \in 1..Len(s) |-> lower_char(s[i])]

\* `word in s` on strings: word is a contiguous substring of s
substring_in(word, s) ==
  \E i \in 1..(Len(s) - Len(word) + 1) : SubSeq(s, i, i + Len(word) - 1) = word

\* The list the nested def assigns (lines 131-134)
FinanceKeywordList ==
  << <<"r","e","v","e","n","u","e">>,
     <<"p","r","o","f","i","t">>,
     <<"f","i","n","a","n","c","i","a","l">>,
     <<"i","n","c","o","m","e">>,
     <<"e","x","p","e","n","s","e">>,
     <<"c","a","s","h">>,
     <<"g","r","o","w","t","h">>,
     <<"m","a","r","k","e","t">>,
     <<"c","o","s","t">>,
     <<"m","a","r","g","i","n">>,
     <<"o","p","e","r","a","t","i","n","g">> >>

\* any(word in query.lower() for word in keywords)
any_keyword_in(query, keywords) ==
  \E k \in 1..Len(keywords) : substring_in(keywords[k], lower(query))

\* The queries typed into st.text_input that the model draws from
QueryRevenue ==
  <<"W","h","a","t"," ","w","a","s"," ","t","h","e"," ","r","e","v","e","n","u","e"," ","g","r","o","w","t","h","?">>
QueryFrance ==
  <<"W","h","a","t"," ","i","s"," ","t","h","e"," ","c","a","p","i","t","a","l"," ","o","f"," ","F","r","a","n","c","e","?">>
QueryUpper ==
  <<"O","P","E","R","A","T","I","N","G"," ","C","O","S","T">>
QuerySplit ==
  <<"i","n"," ","c","o","m","e">>
QueryEmpty == << >>
Queries == {QueryRevenue, QueryFrance, QueryUpper, QuerySplit, QueryEmpty}

\* ----------------------------------------------------------------- helpers
Min(a, b) == IF a < b THEN a ELSE b

Texts == 1..NumTexts

\* The text of "No relevant information found." (line 159), no chunk's text
NoInfoText == 0

\* All sequences over S of length lo..hi
SeqsOf(S, lo, hi) == UNION {[1..n -> S] : n \in lo..hi}

\* All sequences of n distinct elements of S
InjSeqs(S, n) ==
  {s \in [1..n -> S] : \A i, j \in 1..n : i # j => s[i] # s[j]}

Range(s) == {s[i] : i \in 1..Len(s)}

\* s[::-1]
reversed(s) == [i \in 1..Len(s) |-> s[Len(s) + 1 - i]]

\* s[:k] for k >= 0
take(s, k) == SubSeq(s, 1, Min(k, Len(s)))

\* chunks[i] with Python's indexing: i >= 0 from the front, i < 0 from the end
chunk_at(cs, i) == IF i >= 0 THEN cs[i + 1] ELSE cs[Len(cs) + 1 + i]

\* [chunks[i] for i in ids]
chunks_of(cs, ids) == [j \in 1..Len(ids) |-> chunk_at(cs, ids[j])]

\* ------------------------------------------------- the retrievers' outputs
\* embedding_index.search(query_embedding, top_k) on an IndexFlatL2 holding n
\* vectors: the labels of the min(k, n) nearest vectors, nearest first (any
\* order of the ids, the distances being the embedding model's), and then the
\* label -1 for each of the k - n results the index cannot give.
SearchResults(n, k) ==
  {s \o [i \in 1..(k - Min(k, n)) |-> -1] : s \in InjSeqs(0..(n - 1), Min(k, n))}

\* bm25.get_scores(tokenized_query): one score per chunk, in chunk order
ScoreVectors(n) == [1..n -> 0..MaxBm25]

\* np.argsort(scores): a permutation of the ids that lists the scores in
\* non-decreasing order.  The default kind is not a stable sort, so the order
\* of ids with equal scores is whatever the build's sort produces.
ArgSorts(scores) ==
  {p \in InjSeqs(0..(Len(scores) - 1), Len(scores)) :
     \A i, j \in 1..Len(scores) : i < j => scores[p[i] + 1] <= scores[p[j] + 1]}

\* A variant without the [::-1]: the first top_k of the ascending order
bm25_top_unreversed(order, k) == take(order, k)

\* np.argsort(bm25_scores)[::-1][:top_k], given argsort's result
bm25_top(order, k) == take(reversed(order), k)

\* ------------------------------------------------------------------ fusion
\* list(S) for a set S of strings: each element once, in the set's iteration
\* order.  That order follows the strings' hashes, which Python randomises
\* per process, so every order of the elements is one a process can produce.
ListsOfSet(S) == InjSeqs(S, Cardinality(S))

\* A variant without the set(): the two lists joined, duplicates kept
fuse_keeps_duplicates(faiss_c, bm25_c) == {faiss_c \o bm25_c}

\* list(set(faiss_candidates + bm25_candidates)): the lists it can be
fuse(faiss_c, bm25_c) == ListsOfSet(Range(faiss_c \o bm25_c))

\* ---------------------------------------------------------------- reranking
\* The cross-encoder's scores, in tenths, around the 0.3 threshold
CrossScores == (Threshold - 1)..(Threshold + 1)

\* zip(candidate_set, cross_scores), the scores being scorer[text]
zip_scores(cands, scorer) == [i \in 1..Len(cands) |-> <<cands[i], scorer[cands[i]]>>]

\* One step of a stable descending sort: x goes after every pair whose score
\* is at least its own.
insert_desc(sorted, x) ==
  LET p == Cardinality({i \in 1..Len(sorted) : sorted[i][2] >= x[2]})
  IN SubSeq(sorted, 1, p) \o <<x>> \o SubSeq(sorted, p + 1, Len(sorted))

\* A variant without reverse=True: a stable ascending sort
insert_asc(sorted, x) ==
  LET p == Cardinality({i \in 1..Len(sorted) : sorted[i][2] <= x[2]})
  IN SubSeq(sorted, 1, p) \o <<x>> \o SubSeq(sorted, p + 1, Len(sorted))

RECURSIVE sort_by_score_asc(_)
sort_by_score_asc(pairs) ==
  IF pairs = << >> THEN << >>
  ELSE insert_asc(sort_by_score_asc(SubSeq(pairs, 1, Len(pairs) - 1)),
                  pairs[Len(pairs)])

RECURSIVE sort_by_score_desc(_)
\* sorted(pairs, key=lambda x: x[1], reverse=True): stable, so pairs with
\* equal scores keep the order they have in pairs
sort_by_score_desc(pairs) ==
  IF pairs = << >> THEN << >>
  ELSE insert_desc(sort_by_score_desc(SubSeq(pairs, 1, Len(pairs) - 1)),
                   pairs[Len(pairs)])

\* A variant with top_score <= 0.3
is_low_confidence_inclusive(top_score) == top_score <= Threshold

\* top_score < 0.3
is_low_confidence(top_score) == top_score < Threshold

\* -------------------------------------------------- retrieve's return values
ResultPending == [kind |-> "pending", top |-> NoInfoText, confidence |-> 0, ranked |-> << >>]
\* return None (line 138)
ResultNone == [kind |-> "None", top |-> NoInfoText, confidence |-> 0, ranked |-> << >>]
\* return "No relevant information found.", 0, [] (line 159)
ResultNoInfo == [kind |-> "tuple", top |-> NoInfoText, confidence |-> 0, ranked |-> << >>]
\* return top_candidate, top_score, ranked_candidates (line 171)
ResultRanked(ranked) ==
  [kind |-> "tuple", top |-> ranked[1][1], confidence |-> ranked[1][2], ranked |-> ranked]

\* `if retrieval_result:` (line 227): None is false, a 3-tuple is true
truthy(r) == r.kind = "tuple"

\* The outcome a return value stands for
Outcome(r) ==
  CASE r.kind = "None" -> "Rejected"
    [] r.kind = "tuple" /\ r.ranked = << >> -> "NoResults"
    [] r.kind = "tuple" /\ r.ranked # << >> -> "Done"
    [] OTHER -> "none"

\* -------------------------------------------------------------------- state
VARIABLES
  pc,                \* where the script run stands
  run,               \* the number of the script run (each in a new process)
  last_run,          \* the number of runs the user makes
  finance_keywords,  \* the module-global binding of the name finance_keywords
  error,             \* the uncaught exception that ended the run, or "none"
  uploaded,          \* len(uploaded_files)
  chunks,            \* process_pdfs' result
  embedding_built,   \* create_embedding_index returned an index
  bm25_built,        \* create_bm25_index returned an index
  pressed,           \* st.button("Submit Query")
  query,             \* st.text_input's value
  top_k,             \* retrieve's top_k
  stages,            \* the stages of retrieve entered in this run
  calls,             \* the external models invoked since the query was submitted
  indices,           \* retrieve's local: indices[0] of embedding_index.search
  faiss_candidates,  \* retrieve's local
  bm25_scores,       \* retrieve's local
  argsorted,         \* retrieve's np.argsort(bm25_scores)
  bm25_top_indices,  \* retrieve's local
  bm25_candidates,   \* retrieve's local
  candidate_set,     \* retrieve's local
  predicted,         \* cross_encoder.predict's inputs, each with the score given
  low_confidence,   \* st.info("Low confidence in retrieved answer.") was shown
  retrieval_result,  \* what retrieve returned
  models,            \* what the deterministic models answered in an earlier run
  prev_result        \* what retrieve returned in the previous run

vars == <<pc, run, last_run, finance_keywords, error, uploaded, chunks,
          embedding_built, bm25_built, pressed, query, top_k, stages, calls,
          indices, faiss_candidates, bm25_scores, argsorted, bm25_top_indices,
          bm25_candidates, candidate_set, predicted, low_confidence,
          retrieval_result, models, prev_result>>

\* retrieve's locals
locals == <<indices, faiss_candidates, bm25_scores, argsorted,
            bm25_top_indices, bm25_candidates, candidate_set>>

\* What the user gives a run
user_vars == <<uploaded, chunks, pressed, query, top_k>>

\* What stays as it is within a run
fixed_vars == <<run, last_run, finance_keywords, prev_result>>

Unbound == [bound |-> FALSE, value |-> << >>]
Bound == [bound |-> TRUE, value |-> FinanceKeywordList]

NoAnswers ==
  [retrieved |-> FALSE, search |-> << >>, get_scores |-> << >>, argsort |-> << >>,
   scored |-> FALSE, predict |-> << >>]

\* The first run draws an input from S; a later run is given the same input
Given(S, current) == IF run = 1 THEN S ELSE {current}

\* retrieve's frame is gone once it has returned or raised
LocalsDropped ==
  /\ indices' = << >>
  /\ faiss_candidates' = << >>
  /\ bm25_scores' = << >>
  /\ argsorted' = << >>
  /\ bm25_top_indices' = << >>
  /\ bm25_candidates' = << >>
  /\ candidate_set' = << >>

InitRun ==
  /\ pc = "Upload"
  /\ run = 1
  /\ error = "none"
  /\ uploaded = 0
  /\ chunks = << >>
  /\ embedding_built = FALSE
  /\ bm25_built = FALSE
  /\ pressed = FALSE
  /\ query = << >>
  /\ top_k = 1
  /\ stages = << >>
  /\ calls = {}
  /\ indices = << >>
  /\ faiss_candidates = << >>
  /\ bm25_scores = << >>
  /\ argsorted = << >>
  /\ bm25_top_indices = << >>
  /\ bm25_candidates = << >>
  /\ candidate_set = << >>
  /\ predicted = << >>
  /\ low_confidence = FALSE
  /\ retrieval_result = ResultPending
  /\ models = NoAnswers
  /\ prev_result = ResultPending

\* The module as it stands: nothing binds finance_keywords at module level
Init == InitRun /\ finance_keywords = Unbound /\ last_run = MaxRuns

\* One run of the module with finance_keywords bound in its globals
InitBound == InitRun /\ finance_keywords = Bound /\ last_run = 1

\* The same, run MaxRuns times over
InitRuns == InitRun /\ finance_keywords = Bound /\ last_run = MaxRuns

\* ------------------------------------------------------------------- main
\* main, lines 201-203 and 238-239: exactly two uploaded files, or st.info
UploadFiles ==
  /\ pc = "Upload"
  /\ \E n \in Given(0..MaxFiles, uploaded) :
       /\ uploaded' = n
       /\ pc' = IF n = RequiredFiles THEN "Process" ELSE "Ended"
  /\ UNCHANGED <<chunks, pressed, query, top_k>>
  /\ UNCHANGED <<error, embedding_built, bm25_built, stages, calls, predicted,
                 low_confidence, retrieval_result, models>>
  /\ UNCHANGED locals
  /\ UNCHANGED fixed_vars

\* main, line 205: process_pdfs returns the chunks of the two files, possibly
\* none (chunk_text of a text without words is [])
ProcessPdfs ==
  /\ pc = "Process"
  /\ chunks' \in Given(SeqsOf(Texts, 0, MaxChunks), chunks)
  /\ pc' = "Build"
  /\ UNCHANGED <<uploaded, pressed, query, top_k>>
  /\ UNCHANGED <<error, embedding_built, bm25_built, stages, calls, predicted,
                 low_confidence, retrieval_result, models>>
  /\ UNCHANGED locals
  /\ UNCHANGED fixed_vars

\* A variant in which an index is built from no chunks
embedding_index_never_fails(cs) == FALSE

\* create_embedding_index on the chunks: the embeddings of no chunks are an
\* array of shape (0,), and embeddings.shape[1] (line 94) raises IndexError
\* before any index is made
embedding_index_fails(cs) == cs = << >>

\* main, lines 217-220: create_embedding_index, then create_bm25_index
BuildIndexes ==
  /\ pc = "Build"
  /\ IF embedding_index_fails(chunks)
     THEN /\ error' = "IndexError"
          /\ pc' = "Crashed"
          /\ UNCHANGED <<embedding_built, bm25_built>>
     ELSE /\ embedding_built' = TRUE
          /\ bm25_built' = TRUE
          /\ pc' = "Query"
          /\ UNCHANGED error
  /\ UNCHANGED <<stages, calls, predicted, low_confidence, retrieval_result,
                 models>>
  /\ UNCHANGED user_vars
  /\ UNCHANGED locals
  /\ UNCHANGED fixed_vars

\* `st.button("Submit Query") and query` (line 225)
submitted(button, q) == button /\ q # << >>

\* main, lines 224-226: the query box and the button; retrieve is called with
\* the query.  top_k is retrieve's parameter (main passes 5, the default); the
\* model ranges it over 1..MaxTopK so that top_k < len(chunks) and
\* top_k > len(chunks) both occur within MaxChunks.
SubmitQuery ==
  /\ pc = "Query"
  /\ query' \in Given(Queries, query)
  /\ pressed' \in Given(BOOLEAN, pressed)
  /\ top_k' \in Given(1..MaxTopK, top_k)
  /\ pc' = IF submitted(pressed', query') THEN "Validating" ELSE "Ended"
  /\ UNCHANGED <<uploaded, chunks>>
  /\ UNCHANGED <<error, embedding_built, bm25_built, stages, calls, predicted,
                 low_confidence, retrieval_result, models>>
  /\ UNCHANGED locals
  /\ UNCHANGED fixed_vars

\* --------------------------------------------------------------- retrieve
\* Lines 129-138.  The nested def binds only the local name retrieve.  Line
\* 136 looks finance_keywords up in the globals: NameError when it is unbound.
\* With the name bound, a query without a keyword gets st.warning and None.
Validating ==
  /\ pc = "Validating"
  /\ stages' = Append(stages, "Validating")
  /\ IF ~finance_keywords.bound
     THEN /\ error' = "NameError"
          /\ pc' = "Crashed"
          /\ UNCHANGED retrieval_result
     ELSE IF ~any_keyword_in(query, finance_keywords.value)
     THEN /\ retrieval_result' = ResultNone
          /\ pc' = "Handler"
          /\ UNCHANGED error
     ELSE /\ pc' = "Retrieving"
          /\ UNCHANGED <<error, retrieval_result>>
  /\ UNCHANGED <<embedding_built, bm25_built, calls, predicted, low_confidence,
                 models>>
  /\ UNCHANGED user_vars
  /\ UNCHANGED locals
  /\ UNCHANGED fixed_vars

\* Lines 141-154: the query is embedded, the FAISS index searched, the BM25
\* scores computed and their top_k positions taken
Retrieving ==
  /\ pc = "Retrieving"
  /\ stages' = Append(stages, "Retrieving")
  /\ calls' = calls \cup {"encode", "search", "get_scores"}
  /\ indices' \in IF models.retrieved THEN {models.search}
                  ELSE SearchResults(Len(chunks), top_k)
  /\ faiss_candidates' = chunks_of(chunks, indices')
  /\ bm25_scores' \in IF models.retrieved THEN {models.get_scores}
                      ELSE ScoreVectors(Len(chunks))
  /\ argsorted' \in IF models.retrieved THEN {models.argsort}
                    ELSE ArgSorts(bm25_scores')
  /\ bm25_top_indices' = bm25_top(argsorted', top_k)
  /\ bm25_candidates' = chunks_of(chunks, bm25_top_indices')
  /\ models' = IF run < last_run
               THEN [models EXCEPT !.retrieved = TRUE, !.search = indices',
                                   !.get_scores = bm25_scores',
                                   !.argsort = argsorted']
               ELSE models
  /\ pc' = "Fusing"
  /\ UNCHANGED <<error, embedding_built, bm25_built, candidate_set, predicted,
                 low_confidence, retrieval_result>>
  /\ UNCHANGED user_vars
  /\ UNCHANGED fixed_vars

\* Lines 157-159: the candidates of both retrievers, each text once; with no
\* candidate the no-information tuple is returned
Fusing ==
  /\ pc = "Fusing"
  /\ stages' = Append(stages, "Fusing")
  /\ \E fused \in fuse(faiss_candidates, bm25_candidates) :
       IF fused = << >>
       THEN /\ retrieval_result' = ResultNoInfo
            /\ pc' = "Handler"
            /\ LocalsDropped
       ELSE /\ candidate_set' = fused
            /\ pc' = "Reranking"
            /\ UNCHANGED <<retrieval_result, indices, faiss_candidates,
                           bm25_scores, argsorted, bm25_top_indices,
                           bm25_candidates>>
  /\ UNCHANGED <<error, embedding_built, bm25_built, calls, predicted,
                 low_confidence, models>>
  /\ UNCHANGED user_vars
  /\ UNCHANGED fixed_vars

\* The pairs of lines 162-164 for the scores the cross-encoder gives
rerank(cands, scorer) == sort_by_score_desc(zip_scores(cands, scorer))

\* Lines 162-171: every candidate is scored against the query, the pairs are
\* sorted by score, the low-confidence note is shown for a top score under
\* the threshold, and the top pair and the ranked list are returned
Reranking ==
  /\ pc = "Reranking"
  /\ stages' = Append(stages, "Reranking")
  /\ calls' = calls \cup {"predict"}
  /\ \E scorer \in IF models.scored THEN {models.predict}
                   ELSE [Range(candidate_set) -> CrossScores] :
       /\ predicted' = zip_scores(candidate_set, scorer)
       /\ retrieval_result' = ResultRanked(rerank(candidate_set, scorer))
       /\ models' = IF run < last_run
                    THEN [models EXCEPT !.scored = TRUE, !.predict = scorer]
                    ELSE models
  /\ low_confidence' = is_low_confidence(retrieval_result'.confidence)
  /\ pc' = "Handler"
  /\ LocalsDropped
  /\ UNCHANGED <<error, embedding_built, bm25_built>>
  /\ UNCHANGED user_vars
  /\ UNCHANGED fixed_vars

\* A variant without the `if retrieval_result:` test
calls_generator_always(r) == TRUE

\* main, lines 227-237: a true result is shown and handed to
\* generate_response; otherwise "No answer due to guard rail filtering."
calls_generator(r) == truthy(r)

Handler ==
  /\ pc = "Handler"
  /\ calls' = IF calls_generator(retrieval_result)
              THEN calls \cup {"generate"} ELSE calls
  /\ pc' = "Ended"
  /\ UNCHANGED <<error, embedding_built, bm25_built, stages, predicted,
                 low_confidence, retrieval_result, models>>
  /\ UNCHANGED user_vars
  /\ UNCHANGED locals
  /\ UNCHANGED fixed_vars

\* The script is run again in a new process on the same uploads and the same
\* query, with the same deterministic models
Rerun ==
  /\ pc \in {"Ended", "Crashed"}
  /\ run < last_run
  /\ run' = run + 1
  /\ prev_result' = retrieval_result
  /\ pc' = "Upload"
  /\ error' = "none"
  /\ embedding_built' = FALSE
  /\ bm25_built' = FALSE
  /\ stages' = << >>
  /\ calls' = {}
  /\ predicted' = << >>
  /\ low_confidence' = FALSE
  /\ retrieval_result' = ResultPending
  /\ UNCHANGED <<last_run, finance_keywords, models>>
  /\ UNCHANGED user_vars
  /\ UNCHANGED locals

\* The module as it stands: line 136 raises, so no later line of retrieve and
\* no line of the handler is ever executed
NextShipped ==
  \/ UploadFiles
  \/ ProcessPdfs
  \/ BuildIndexes
  \/ SubmitQuery
  \/ Validating
  \/ Rerun

NextOnce ==
  \/ UploadFiles
  \/ ProcessPdfs
  \/ BuildIndexes
  \/ SubmitQuery
  \/ Validating
  \/ Retrieving
  \/ Fusing
  \/ Reranking
  \/ Handler

Next ==
  \/ NextOnce
  \/ Rerun

Spec == Init /\ [][NextShipped]_vars

SpecBound == InitBound /\ [][NextOnce]_vars

SpecRuns == InitRuns /\ [][Next]_vars

\* ================================================================== claims
\* retrieve's guard rail (line 136) has been evaluated in this run
Validated == stages # << >>

\* retrieve has ended in this run: returned to the handler, or raised
RetrieveEnded == Validated /\ pc \in {"Handler", "Ended", "Crashed"}

InDomain(q) == any_keyword_in(q, FinanceKeywordList)

\* A chunk id as a position of chunks (Python counts a negative index from
\* the end)
Position(i) == IF i >= 0 THEN i ELSE Len(chunks) + i

\* The chunk ids of the dense top-k result and of the lexical top-k result
DenseIds == {Position(indices[j]) : j \in 1..Len(indices)}
LexicalIds == Range(bm25_top_indices)

NoRepeats(s) == \A i, j \in 1..Len(s) : i # j => s[i] # s[j]

\* The BM25 score of a chunk id
LexicalScore(id) == bm25_scores[id + 1]

\* The highest score among scored pairs
TopScore(pairs) ==
  CHOOSE m \in {pairs[i][2] : i \in 1..Len(pairs)} :
    \A i \in 1..Len(pairs) : pairs[i][2] <= m

\* ---- C1.  The input guard rail admits a query if and only if the
\* lower-cased query contains a keyword of the finance list: once the guard
\* has run, a query with a keyword goes on to retrieval and a query without
\* one is rejected with None.  Violated by the module as it stands: line 136
\* raises NameError for every query.
C1_GuardAdmitsIffKeyword ==
  Validated =>
    IF InDomain(query)
    THEN error = "none" /\ pc # "Crashed" /\ retrieval_result.kind # "None"
    ELSE error = "none" /\ retrieval_result = ResultNone

\* ---- C2.  A query the guard rail rejects makes retrieve return the Rejected
\* outcome (None) with no model invoked: no embedding, no index search, no
\* BM25 scoring, no cross-encoder call, no generation before the return.
\* Violated by the module as it stands: such a query ends in NameError, not
\* in the Rejected outcome.
C2_RejectedWithoutRetrieval ==
  (RetrieveEnded /\ ~InDomain(query)) =>
    /\ Outcome(retrieval_result) = "Rejected"
    /\ stages = <<"Validating">>
    /\ calls = {}

C8_ClosedOutcomes ==
  RetrieveEnded =>
    /\ error = "none"
    /\ Outcome(retrieval_result) \in {"Done", "Rejected", "NoResults"}
    /\ Outcome(retrieval_result) = "Rejected" => stages = <<"Validating">>
    /\ Outcome(retrieval_result) = "NoResults" =>
         stages = <<"Validating", "Retrieving", "Fusing">>
    /\ Outcome(retrieval_result) = "Done" =>
         stages = <<"Validating", "Retrieving", "Fusing", "Reranking">>

\* ---- C9.  Building the indexes from no chunks fails: the run ends in the
\* build's error with no embedding index and no BM25 index made, and no query
\* is taken or served while the corpus is empty.
C9_EmptyCorpusFailsBuild ==
  /\ (chunks = << >> /\ uploaded = RequiredFiles
        /\ pc \notin {"Upload", "Process", "Build"})
       => /\ pc = "Crashed"
          /\ error = "IndexError"
          /\ ~embedding_built
          /\ ~bm25_built
  /\ (pc \in {"Query", "Validating", "Retrieving", "Fusing", "Reranking", "Handler"}
        \/ Validated)
       => (chunks # << >> /\ embedding_built /\ bm25_built)

\* The build has been tried on an empty corpus
C9_Witness ==
  /\ chunks = << >>
  /\ pc = "Crashed"
  /\ error = "IndexError"

====
